---- MODULE Spec2Model ----
(***************************************************************************)
(* Model of naca.py: NACA4(number, N, half_cosine_spacing,                 *)
(* closed_trailing_edge, save_to_file).                                    *)
(*                                                                         *)
(* One call of NACA4 is a run of the state machine: the arguments are      *)
(* chosen in Init, every block of the function body is one action, and pc  *)
(* is the position in the body.  Python strings are sequences of           *)
(* one-character strings.  Floats are fixed-point integers with Scale      *)
(* units per 1.0; sqrt and cos are computed in that arithmetic.            *)
(***************************************************************************)
EXTENDS Integers, Sequences, FiniteSets, TLC

\* ---------------------------------------------------------------- bounds
MaxLen == 5          \* longest designator string tried
MaxN == 3            \* largest point count tried

\* Characters a designator is built from.
Chars == {"0", "1", "5", "-"}
Digits == {"0", "1", "2", "3", "4", "5", "6", "7", "8", "9"}

\* ------------------------------------------------------- float arithmetic
Scale == 10000       \* fixed-point units per 1.0
PI == 31416          \* math.pi in Scale units

C_SQRT == 29690      \* 0.29690, in units of 1/100000
C_X1 == 12600        \* 0.12600
C_X2 == 35160        \* 0.35160
C_X3 == 28430        \* 0.28430
C_X4_CLOSED == 10360 \* 0.10360
C_X4_OPEN == 10150   \* 0.10150
CoefUnit == 10 * Scale
TE_DIV == 2000       \* 0.20 in Scale units

\* a * b for two fixed-point numbers (a >= 0), without leaving 32 bits
Mul(a, b) == ((a \div Scale) * b) + (((a % Scale) * b) \div Scale)

\* a / b for two fixed-point numbers (a >= 0, b > 0)
Div(a, b) == ((a \div b) * Scale) + (((a % b) * Scale) \div b)

\* c * v where c is a coefficient in units of 1/CoefUnit
Coef(c, v) == (c * v) \div CoefUnit

RECURSIVE Power(_, _)
Power(v, n) == IF n = 0 THEN Scale ELSE Mul(Power(v, n - 1), v)

RECURSIVE ISqrt(_, _, _)
ISqrt(v, lo, hi) ==
    IF lo >= hi THEN lo
    ELSE LET mid == (lo + hi + 1) \div 2
         IN  IF mid * mid <= v THEN ISqrt(v, mid, hi) ELSE ISqrt(v, lo, mid - 1)

\* np.sqrt on a value in [0, 1]
Sqrt(v) == ISqrt(v * Scale, 0, Scale)

\* cos on [0, pi/2] by its series
RECURSIVE CosSeries(_, _, _)
CosSeries(th2, term, k) ==
    IF k > 6 THEN 0
    ELSE term - CosSeries(th2, Mul(term, th2) \div ((2 * k - 1) * (2 * k)), k + 1)

\* np.cos on [0, pi]
Cos(theta) ==
    IF 2 * theta > PI
    THEN 0 - CosSeries(Mul(PI - theta, PI - theta), Scale, 1)
    ELSE CosSeries(Mul(theta, theta), Scale, 1)

\* -------------------------------------------------------- string parsing
DigitVal(c) ==
    CASE c = "0" -> 0 [] c = "1" -> 1 [] c = "2" -> 2 [] c = "3" -> 3
      [] c = "4" -> 4 [] c = "5" -> 5 [] c = "6" -> 6 [] c = "7" -> 7
      [] c = "8" -> 8 [] c = "9" -> 9

AllDigits(s) == \A i \in 1..Len(s) : s[i] \in Digits

\* the strings int() and float() accept: an optional sign, then digits
IsNumeral(s) ==
    /\ Len(s) >= 1
    /\ IF s[1] = "-" THEN Len(s) >= 2 /\ AllDigits(Tail(s)) ELSE AllDigits(s)

RECURSIVE Magnitude(_)
Magnitude(s) ==
    IF Len(s) = 0 THEN 0
    ELSE 10 * Magnitude(SubSeq(s, 1, Len(s) - 1)) + DigitVal(s[Len(s)])

\* int(s) for a numeral s
IntOf(s) == IF s[1] = "-" THEN 0 - Magnitude(Tail(s)) ELSE Magnitude(s)

\* float(s) for a numeral s
FloatOf(s) == IntOf(s) * Scale

\* number[2:]
From2(s) == SubSeq(s, 3, Len(s))

\* --------------------------------------------------------- array helpers
\* np.linspace without its endpoint
Linspace_NoEndpoint(start, stop, n) ==
    LET step == (stop - start) \div n
    IN  [i \in 1..n |-> start + (i - 1) * step]

\* np.linspace(start, stop, n)
Linspace(start, stop, n) ==
    IF n = 1 THEN <<start>>
    ELSE LET step == (stop - start) \div (n - 1)
         IN  [i \in 1..n |-> IF i = n THEN stop ELSE start + (i - 1) * step]

\* np.flipud left out
Flipud_Identity(s) == s

\* np.flipud
Flipud(s) == [i \in 1..Len(s) |-> s[Len(s) + 1 - i]]

\* the slice a[0:], which keeps the leading-edge station
From1_NoDrop(s) == s

\* a[1:]
From1(s) == SubSeq(s, 2, Len(s))

\* np.zeros(n)
Zeros(n) == [i \in 1..n |-> 0]

\* np.add / np.subtract
Add(a, b) == [i \in 1..Len(a) |-> a[i] + b[i]]
Subtract_Swapped(a, b) == [i \in 1..Len(a) |-> b[i] - a[i]]
Subtract(a, b) == [i \in 1..Len(a) |-> a[i] - b[i]]

\* np.column_stack((x, y))
ColumnStack(a, b) == [i \in 1..Len(a) |-> <<a[i], b[i]>>]

\* ------------------------------------------------------ formulas of NACA4
\* the input check with N >= 0 for N > 0
Valid_ZeroN(num, n) == 0 < IntOf(num) /\ IntOf(num) < 10000 /\ n >= 0

\* the validity test of the input check
Valid(num, n) == 0 < IntOf(num) /\ IntOf(num) < 10000 /\ n > 0

\* m / 100, p / 10, t / 100 unless the value is 0
Scaled(v, d) == IF v # 0 THEN v \div d ELSE v

\* the chordwise stations
Grid(hcs, n) ==
    IF hcs
    THEN LET a == Linspace(0, PI, n)
         IN  [i \in 1..n |-> (Scale - Cos(a[i])) \div 2]
    ELSE Linspace(0, Scale, n)

\* the bracket of the thickness equation at one station
ThicknessPoly(c4, v) ==
    Coef(C_SQRT, Sqrt(v)) - Coef(C_X1, v) - Coef(C_X2, Power(v, 2))
        + Coef(C_X3, Power(v, 3)) - Coef(c4, Power(v, 4))

ThicknessDist(tt, cte, xs) ==
    LET c4 == IF cte THEN C_X4_CLOSED ELSE C_X4_OPEN
    IN  [i \in 1..Len(xs) |-> Mul(Div(tt, TE_DIV), ThicknessPoly(c4, xs[i]))]

\* camber ahead of and behind the position of maximum camber
FwdCamber(mm, pp, v) == Mul(Div(mm, Power(pp, 2)), Mul(2 * pp, v) - Power(v, 2))
AftCamber(mm, pp, v) ==
    Mul(Div(mm, Power(Scale - pp, 2)),
        (Scale - 2 * pp) + Mul(2 * pp, v) - Power(v, 2))

IsCambered(mm, pp) == 0 < pp /\ pp < Scale /\ 0 < mm /\ mm < Scale

\* the two halves appended in the wrong order
CamberLine_AftFirst(mm, pp, xs) ==
    LET fwd_x == SelectSeq(xs, LAMBDA v : v < pp)
        aft_x == SelectSeq(xs, LAMBDA v : v >= pp)
    IN  IF IsCambered(mm, pp)
        THEN [i \in 1..Len(aft_x) |-> AftCamber(mm, pp, aft_x[i])]
             \o [i \in 1..Len(fwd_x) |-> FwdCamber(mm, pp, fwd_x[i])]
        ELSE Zeros(Len(xs))

CamberLine(mm, pp, xs) ==
    LET fwd_x == SelectSeq(xs, LAMBDA v : v < pp)
        aft_x == SelectSeq(xs, LAMBDA v : v >= pp)
    IN  IF IsCambered(mm, pp)
        THEN [i \in 1..Len(fwd_x) |-> FwdCamber(mm, pp, fwd_x[i])]
             \o [i \in 1..Len(aft_x) |-> AftCamber(mm, pp, aft_x[i])]
        ELSE Zeros(Len(xs))

\* only y[0] = 0
CloseEnds_FirstOnly(ys) == [i \in 1..Len(ys) |-> IF i = 1 THEN 0 ELSE ys[i]]

\* y[0] = 0; y[-1] = 0
CloseEnds(ys) == [i \in 1..Len(ys) |-> IF i = 1 \/ i = Len(ys) THEN 0 ELSE ys[i]]

\* fmt='%f': six decimals
Fmt(v) == v * (1000000 \div Scale)

FileName(num) == <<"N", "A", "C", "A", " ">> \o num \o <<".", "d", "a", "t">>

Row(pair) == [kind |-> "row", text |-> <<Fmt(pair[1]), "\t", Fmt(pair[2])>>]

\* np.savetxt without header=
FileLines_NoHeader(coords, header) == [i \in 1..Len(coords) |-> Row(coords[i])]

\* the lines np.savetxt writes: the commented header, then one row per pair
FileLines(coords, header) ==
    <<[kind |-> "header", text |-> <<"#", " ">> \o header]>>
        \o [i \in 1..Len(coords) |-> Row(coords[i])]

\* ------------------------------------------------------------------ state
VARIABLES number, N, half_cosine_spacing, closed_trailing_edge, save_to_file,
          pc, err, m, p, t, x, thickness, camber, y_upper, y_lower, y,
          coordinates, files

args == <<number, N, half_cosine_spacing, closed_trailing_edge, save_to_file>>
locals == <<m, p, t, x, thickness, camber, y_upper, y_lower, y, coordinates>>
vars == <<args, pc, err, locals, files>>

Unbound == "unbound"
Rounding == {-1, 0, 1}
NoError == [kind |-> "none", line |-> 0]

Designators == UNION {[1..k -> Chars] : k \in 0..MaxLen}

Init ==
    /\ number \in Designators
    /\ N \in 0..MaxN
    /\ half_cosine_spacing \in BOOLEAN
    /\ closed_trailing_edge \in BOOLEAN
    /\ save_to_file \in BOOLEAN
    /\ pc = "validate"
    /\ err = NoError
    /\ m = Unbound /\ p = Unbound /\ t = Unbound /\ x = Unbound
    /\ thickness = Unbound /\ camber = Unbound
    /\ y_upper = Unbound /\ y_lower = Unbound /\ y = Unbound
    /\ coordinates = Unbound
    /\ files = {}

Raise(kind, line) ==
    /\ pc' = "raised"
    /\ err' = [kind |-> kind, line |-> line]

\* lines 62-63
Validate ==
    /\ pc = "validate"
    /\ IF ~IsNumeral(number) THEN Raise("ValueError", 62)
       ELSE IF ~Valid(number, N) THEN Raise("ValueError", 63)
       ELSE pc' = "decode" /\ err' = err
    /\ UNCHANGED <<args, locals, files>>

\* lines 68-77
Decode ==
    /\ pc = "decode"
    /\ IF ~IsNumeral(<<number[1]>>)
       THEN Raise("ValueError", 68) /\ UNCHANGED <<m, p, t>>
       ELSE IF Len(number) < 2
       THEN Raise("IndexError", 69) /\ UNCHANGED <<m, p, t>>
       ELSE IF ~IsNumeral(<<number[2]>>)
       THEN Raise("ValueError", 69) /\ UNCHANGED <<m, p, t>>
       ELSE IF ~IsNumeral(From2(number))
       THEN Raise("ValueError", 70) /\ UNCHANGED <<m, p, t>>
       ELSE /\ m' = Scaled(FloatOf(<<number[1]>>), 100)
            /\ p' = Scaled(FloatOf(<<number[2]>>), 10)
            /\ t' = Scaled(FloatOf(From2(number)), 100)
            /\ pc' = "grid" /\ err' = err
    /\ UNCHANGED <<args, x, thickness, camber, y_upper, y_lower, y,
                   coordinates, files>>

\* lines 81-84
BuildGrid ==
    /\ pc = "grid"
    /\ x' = Grid(half_cosine_spacing, N)
    /\ pc' = "thickness"
    /\ UNCHANGED <<args, err, m, p, t, thickness, camber, y_upper, y_lower, y,
                   coordinates, files>>

\* lines 89-96.  The float evaluation of the polynomial leaves a rounding
\* residue (lines 123-125); it is any of Rounding at each station.
Thickness ==
    /\ pc = "thickness"
    /\ \E r \in [1..N -> Rounding] :
           thickness' = Add(ThicknessDist(t, closed_trailing_edge, x), r)
    /\ pc' = "camber"
    /\ UNCHANGED <<args, err, m, p, t, x, camber, y_upper, y_lower, y,
                   coordinates, files>>

\* lines 100-109
Camber ==
    /\ pc = "camber"
    /\ camber' = CamberLine(m, p, x)
    /\ pc' = "assemble"
    /\ UNCHANGED <<args, err, m, p, t, x, thickness, y_upper, y_lower, y,
                   coordinates, files>>

\* lines 111-130
Assemble ==
    /\ pc = "assemble"
    /\ LET yu == Add(camber, thickness)
           yl == Subtract(camber, thickness)
           x_upper == Flipud(x)
           x_lower == From1(x)
           ycat == Flipud(yu) \o From1(yl)
       IN  /\ x' = x_upper \o x_lower
           /\ y_upper' = Flipud(yu)
           /\ y_lower' = From1(yl)
           /\ y' = IF closed_trailing_edge THEN CloseEnds(ycat) ELSE ycat
           /\ coordinates' = ColumnStack(x', y')
    /\ pc' = "save"
    /\ UNCHANGED <<args, err, m, p, t, thickness, camber, files>>

\* lines 132-135
Save ==
    /\ pc = "save"
    /\ files' = IF save_to_file
                THEN files \cup {[name |-> FileName(number),
                                  lines |-> FileLines(coordinates,
                                      <<"N", "A", "C", "A", " ">> \o number)]}
                ELSE files
    /\ pc' = "done"
    /\ UNCHANGED <<args, err, locals>>

Next == Validate \/ Decode \/ BuildGrid \/ Thickness \/ Camber \/ Assemble \/ Save

Spec == Init /\ [][Next]_vars

\* ----------------------------------------------------------------- claims
Returned == pc = "done"
AllUnbound ==
    /\ m = Unbound /\ p = Unbound /\ t = Unbound /\ x = Unbound
    /\ thickness = Unbound /\ camber = Unbound
    /\ y_upper = Unbound /\ y_lower = Unbound /\ y = Unbound
    /\ coordinates = Unbound
InRange(num) == 0 < IntOf(num) /\ IntOf(num) < 10000
Xs(coords) == [i \in 1..Len(coords) |-> coords[i][1]]
Ys(coords) == [i \in 1..Len(coords) |-> coords[i][2]]

\* C1: whenever NACA4 returns, for N > 0 (N = 1 included) and every setting
\* of the spacing and trailing-edge flags, the result has exactly 2N - 1
\* coordinate pairs.
C1_Length == Returned => Len(coordinates) = 2 * N - 1

C1_Witness == Returned /\ N = 1 /\ Len(coordinates) = 1

\* C2: when the designator reads as an integer and either N <= 0 or that
\* integer is not strictly between 0 and 10000, the call raises the
\* ValueError of line 63 and nothing else happens: no local is bound, no
\* coordinates exist, no file is written, whatever save_to_file is.
C2_InvalidInputRaises ==
    (IsNumeral(number) /\ (N <= 0 \/ ~InRange(number))) =>
        /\ pc \in {"validate", "raised"}
        /\ pc = "raised" => err = [kind |-> "ValueError", line |-> 63]
        /\ AllUnbound
        /\ files = {}

C2_Witness ==
    /\ pc = "raised" /\ save_to_file /\ N > 0
    /\ IsNumeral(number) /\ IntOf(number) >= 10000

\* C3: for a designator of 1 to 4 digits whose integer value is strictly
\* between 0 and 10000, N > 0 and save_to_file false, no step of the call
\* raises an error.
C3_NoErrorAfterValidation ==
    (/\ Len(number) \in 1..4 /\ AllDigits(number) /\ InRange(number)
     /\ N > 0 /\ ~save_to_file) => pc # "raised"

\* C4: a designator that passes validation and is decoded has exactly four
\* digits.
C4_FourDigits ==
    pc \notin {"validate", "decode", "raised"} =>
        Len(number) = 4 /\ AllDigits(number)

\* C5: on return, with closed_trailing_edge the first and the last y are
\* exactly 0; without it they are the values the surface formulas gave
\* (upper surface at the last station first, lower surface at the last
\* station last, which for N = 1 is the same single upper entry).
C5_TrailingEdge ==
    Returned =>
        LET last == Len(coordinates)
        IN  IF closed_trailing_edge
            THEN coordinates[1][2] = 0 /\ coordinates[last][2] = 0
            ELSE /\ coordinates[1][2] = camber[N] + thickness[N]
                 /\ coordinates[last][2] =
                        IF N = 1 THEN camber[1] + thickness[1]
                        ELSE camber[N] - thickness[N]

C5_Witness ==
    /\ Returned /\ closed_trailing_edge /\ N >= 2
    /\ camber[N] + thickness[N] # 0 /\ camber[N] - thickness[N] # 0

GridBuilt == pc \in {"thickness", "camber", "assemble"}

\* C6 as stated: for every N > 0 (N = 1 included) the grid starts at 0 and
\* ends at 1, and the returned loop starts and ends at x = 1 with x = 0 at
\* index N - 1 only.
C6_Endpoints ==
    /\ GridBuilt => x[1] = 0 /\ x[Len(x)] = Scale
    /\ Returned =>
          /\ coordinates[1][1] = Scale
          /\ coordinates[Len(coordinates)][1] = Scale
          /\ \A i \in 1..Len(coordinates) : coordinates[i][1] = 0 <=> i = N

\* C6 amended: the same for every N >= 2; for N = 1 the grid is the single
\* station 0 and the returned loop is the single point at x = 0.
C6_EndpointsFromTwo ==
    /\ (GridBuilt /\ N >= 2) => x[1] = 0 /\ x[Len(x)] = Scale
    /\ (GridBuilt /\ N = 1) => x = <<0>>
    /\ (Returned /\ N >= 2) =>
          /\ coordinates[1][1] = Scale
          /\ coordinates[Len(coordinates)][1] = Scale
          /\ \A i \in 1..Len(coordinates) : coordinates[i][1] = 0 <=> i = N
    /\ (Returned /\ N = 1) => Xs(coordinates) = <<0>>

C6_Witness == Returned /\ N >= 3 /\ half_cosine_spacing

ZeroCamberDigit == number[1] = "0" \/ number[2] = "0"

\* C7: when the first or the second digit of the designator is 0, camber is
\* 0 at every station and on return, for every j in 1..N-1, the entries
\* N-1-j and N-1+j of the result have the same x and opposite y.
C7_Symmetric ==
    /\ (pc \in {"assemble", "save", "done"} /\ ZeroCamberDigit) =>
          \A i \in 1..Len(camber) : camber[i] = 0
    /\ (Returned /\ ZeroCamberDigit) =>
          \A j \in 1..(N - 1) :
             /\ coordinates[N - j][1] = coordinates[N + j][1]
             /\ coordinates[N - j][2] = 0 - coordinates[N + j][2]

C7_Witness ==
    /\ Returned /\ number[1] # "0" /\ number[2] = "0" /\ N >= 3
    /\ coordinates[N - 1][2] > 0

HeaderLines(f) == {i \in 1..Len(f.lines) : f.lines[i].kind = "header"}
DataRows(f) == {i \in 1..Len(f.lines) : f.lines[i].kind = "row"}

C8_Files ==
    /\ ~save_to_file => files = {}
    /\ ~Returned => files = {}
    /\ (Returned /\ save_to_file) =>
          /\ Cardinality(files) = 1
          /\ \A f \in files :
                /\ f.name = <<"N", "A", "C", "A", " ">> \o number
                                \o <<".", "d", "a", "t">>
                /\ Cardinality(HeaderLines(f)) = 1
                /\ Cardinality(DataRows(f)) = 2 * N - 1
                /\ Len(f.lines) = 2 * N

\* C8: save_to_file touches the file system only: the step that writes
\* leaves the coordinates and every local as computed; without the flag no
\* file ever exists; with it no file exists before the coordinates are
\* complete and on return there is exactly one file, "NACA <number>.dat",
\* of one header line and 2N - 1 rows.
C8_WriteToFile ==
    /\ []C8_Files
    /\ [][pc = "save" => (locals' = locals /\ pc' = "done")]_vars

C8_Witness == Returned /\ save_to_file /\ files # {} /\ N >= 2

EndsClosed(i, v) ==
    IF closed_trailing_edge /\ i \in {1, 2 * N - 1} THEN 0 ELSE v

\* C9: the assembly puts at index k, k in 0..N-1, the pair
\* (x[N-1-k], yUpper[N-1-k]) and at index N-1+j, j in 1..N-1, the pair
\* (x[j], yLower[j]), with x the grid, yUpper = camber + thickness and
\* yLower = camber - thickness, the two end y-values being 0 when
\* closed_trailing_edge; station 0 of the lower surface is the one dropped.
C9_Ordering ==
    [][pc = "assemble" =>
        /\ Len(coordinates') = 2 * N - 1
        /\ \A k \in 0..(N - 1) :
              coordinates'[k + 1] =
                 <<x[N - k], EndsClosed(k + 1, camber[N - k] + thickness[N - k])>>
        /\ \A j \in 1..(N - 1) :
              coordinates'[N + j] =
                 <<x[j + 1], EndsClosed(N + j, camber[j + 1] - thickness[j + 1])>>
    ]_vars

C9_Witness ==
    /\ pc = "save" /\ N >= 3 /\ ~ZeroCamberDigit
    /\ coordinates[1] # coordinates[Len(coordinates)]

\* C10: for a designator whose first two digits are both non-zero, the
\* camber at grid index i is the forward formula when x[i] < p and the aft
\* formula when x[i] >= p, for every i in 0..N-1.
C10_CamberBranches ==
    (pc = "assemble" /\ ~ZeroCamberDigit) =>
        /\ Len(camber) = N
        /\ \A i \in 1..N :
              camber[i] = IF x[i] < p THEN FwdCamber(m, p, x[i])
                          ELSE AftCamber(m, p, x[i])

C10_Witness ==
    /\ pc = "assemble" /\ ~ZeroCamberDigit
    /\ \E i \in 1..N : x[i] = p /\ camber[i] = m
    /\ \E i \in 1..N : x[i] < p

====
